---- MODULE Spec2Model ----
(***************************************************************************)
(* The resource caching layer of the quick-toshl extension: class          *)
(* ToshlClient of src/utils/toshl.ts (src/unnamed/part_001).               *)
(*                                                                         *)
(* The client is a process-wide singleton.  Its public methods are async:  *)
(* a call runs synchronously up to its `await this.api.get(...)`, is       *)
(* suspended while the transport works, and runs synchronously from the    *)
(* transport's answer to its return.  Each method is therefore two steps,  *)
(* the call and the resumption, and other callers may run between them.    *)
(* The clock is Date.now(), in milliseconds since the client was built.    *)
(***************************************************************************)
EXTENDS Integers, Sequences, FiniteSets, TLC

VARIABLES form, client, cache, calls, now, ncalls, called

vars == <<form, client, cache, calls, now, ncalls, called>>

---------------------------------------------------------------------------
(* Bounds of the model. *)

\* calls started over a run
MaxCalls == 3
\* distinct cache keys called over a run
MaxKeys == 1
\* the time a request takes from its sending to its answer, in ms
RoundTrip == 1

\* two logical callers (commands, hooks, tools), each with at most one call in flight
Callers == {1, 2}

---------------------------------------------------------------------------
(* Program constants and values. *)

\* const CACHE_TTL = 14 * 24 * 60 * 60 * 1000
CACHE_TTL == 14 * 24 * 60 * 60 * 1000

\* the cache keys handed to fetchWithCache by getCategories, getTags,
\* getAccounts and getCurrencies, and the key of getDefaultCurrency
FetchKeys == {"categories", "tags", "accounts", "currencies"}
DefaultCurrencyKey == "defaultCurrency"
CacheKeys == FetchKeys \cup {DefaultCurrencyKey}

\* `undefined` for an optional string (etag?: string), and for a missing entry
NoValue == "undefined"
NoEntry == [undefined |-> TRUE]

\* interface CacheEntry<T> { data; timestamp; etag?; lastModified? }
CacheEntry(data, timestamp, etag, lastModified) ==
  [data |-> data, timestamp |-> timestamp, etag |-> etag, lastModified |-> lastModified]

---------------------------------------------------------------------------
(* The transport's answers (axios): a 2xx response with body and headers,  *)
(* a rejected response carrying a status, or a failure with no response.   *)

\* JSON null: every transform throws a TypeError on it
NullBody == [null |-> TRUE]

\* a response body of each endpoint, which its transform changes
Body1(k) ==
  CASE k \in {"categories", "tags"} ->
         [list |-> <<[id |-> "a", deleted |-> FALSE], [id |-> "b", deleted |-> TRUE]>>]
    [] k = "accounts" ->
         [list |-> <<[id |-> "a", order |-> 2], [id |-> "b", order |-> 1]>>]
    [] k = "currencies" ->
         [entries |-> <<[key |-> "USD", details |-> "dollar"], [key |-> "EUR", details |-> "euro"]>>]
    [] k = DefaultCurrencyKey ->
         [me |-> [currency |-> [main |-> "EUR"]]]

\* another body of each endpoint, with other content
Body2(k) ==
  CASE k \in {"categories", "tags"} -> [list |-> <<[id |-> "c", deleted |-> FALSE]>>]
    [] k = "accounts" -> [list |-> <<[id |-> "c", order |-> 0]>>]
    [] k = "currencies" -> [entries |-> <<[key |-> "VND", details |-> "dong"]>>]
    [] k = DefaultCurrencyKey -> [me |-> [currency |-> NoEntry]]

\* the validators a 2xx response carries: both, an etag alone, a
\* last-modified alone, or none
Validators == { <<"v1", "t1">>, <<"v1", NoValue>>, <<NoValue, "t1">>, <<NoValue, NoValue>> }

OkResponse(body, v) == [kind |-> "ok", body |-> body, etag |-> v[1], lastModified |-> v[2]]

\* 2xx answers: a body with every combination of validators, and another
\* body and the body the transform throws on with newer validators
OkResponses(k) ==
  { OkResponse(Body1(k), v) : v \in Validators }
    \cup { OkResponse(b, <<"v2", "t2">>) : b \in {Body2(k), NullBody} }

\* error.response.status of a rejected response; 0 stands for a failure
\* without a response (network error), whose error.response is undefined
NoStatus == 0
ErrorStatuses == {304, 500}
Failures == { [kind |-> "error", status |-> s] : s \in ErrorStatuses \cup {NoStatus} }

\* the TypeError a transform throws: it has no response property
TransformError == [kind |-> "TypeError", status |-> NoStatus]

Responses(k) == OkResponses(k) \cup Failures

---------------------------------------------------------------------------
(* The transforms the four wrappers pass to fetchWithCache. *)

RECURSIVE SortByOrder(_)
\* Array.prototype.sort((a, b) => a.order - b.order): stable, ascending
SortByOrder(s) ==
  IF s = <<>> THEN <<>>
  ELSE LET rest == SortByOrder(Tail(s))
           x == Head(s)
           before == SelectSeq(rest, LAMBDA y : y.order < x.order)
           after == SelectSeq(rest, LAMBDA y : y.order >= x.order)
       IN before \o <<x>> \o after

RECURSIVE MapEntries(_)
\* Object.entries(currencyMap).map(([code, details]) => ({ ...details, code }))
MapEntries(s) ==
  IF s = <<>> THEN <<>>
  ELSE <<[code |-> Head(s).key, details |-> Head(s).details]>> \o MapEntries(Tail(s))

\* transform throws: null.filter, null.sort and Object.entries(null) are TypeErrors
TransformRaises(k, body) == body = NullBody

\* transform(response.data) for a body it does not throw on
Transform(k, body) ==
  CASE k \in {"categories", "tags"} -> SelectSeq(body.list, LAMBDA c : ~c.deleted)
    [] k = "accounts" -> SortByOrder(body.list)
    [] k = "currencies" -> MapEntries(body.entries)

---------------------------------------------------------------------------
(* The Cache Store: private cache: Map<string, CacheEntry<unknown>>. *)

\* this.cache.get(key)
getCacheEntry(c, key) == c[key]

\* setCache that replaces the whole Map by one holding the new entry alone
setCacheAlone(c, key, data, etag, lastModified, t) ==
  [k \in DOMAIN c |->
     IF k = key THEN CacheEntry(data, t, etag, lastModified) ELSE NoEntry]

\* this.cache.set(key, { data, timestamp: Date.now(), etag, lastModified })
setCache(c, key, data, etag, lastModified, t) ==
  [c EXCEPT ![key] = CacheEntry(data, t, etag, lastModified)]

\* JavaScript truthiness of an optional string: undefined and "" are falsy
Truthy(s) == s # NoValue /\ s # ""

---------------------------------------------------------------------------
(* fetchWithCache, as pure functions of what the call holds when it runs.  *)

\* ConditionalHeaders with the second `if` written `else if`: the
\* last-modified validator is sent only for an entry without an etag
ConditionalHeadersElseIf(cached) ==
  [ifNoneMatch |->
     IF cached # NoEntry /\ Truthy(cached.etag) THEN cached.etag ELSE NoValue,
   ifModifiedSince |->
     IF cached # NoEntry /\ ~Truthy(cached.etag) /\ Truthy(cached.lastModified)
     THEN cached.lastModified ELSE NoValue]

\* the headers built before the request: If-None-Match, If-Modified-Since
ConditionalHeaders(cached) ==
  [ifNoneMatch |->
     IF cached # NoEntry /\ Truthy(cached.etag) THEN cached.etag ELSE NoValue,
   ifModifiedSince |->
     IF cached # NoEntry /\ Truthy(cached.lastModified) THEN cached.lastModified ELSE NoValue]

\* what one run of the code after the await comes to: how the call ends,
\* what it returns or throws, and the setCache it made (NoEntry: none)
Ending(outcome, result, error, set) ==
  [outcome |-> outcome, result |-> result, error |-> error, set |-> set]

\* OnError whose 304 branch does not test `cached`: with no entry it stores
\* and returns an empty list
OnErrorNotModifiedUnguarded(k, cached, error, t) ==
  IF error.status = 304 /\ cached = NoEntry
  THEN Ending("notModified", <<>>, NoEntry,
              [data |-> <<>>, etag |-> NoValue, lastModified |-> NoValue])
  ELSE IF error.status = 304
  THEN Ending("notModified", cached.data, NoEntry,
              [data |-> cached.data, etag |-> cached.etag, lastModified |-> cached.lastModified])
  ELSE IF cached # NoEntry /\ t - cached.timestamp < CACHE_TTL
  THEN Ending("fallback", cached.data, NoEntry, NoEntry)
  ELSE Ending("thrown", NoEntry, error, NoEntry)

\* OnError whose fallback stamps the entry again, as its 304 branch does
OnErrorFallbackRestamps(k, cached, error, t) ==
  IF error.status = 304 /\ cached # NoEntry
  THEN Ending("notModified", cached.data, NoEntry,
              [data |-> cached.data, etag |-> cached.etag, lastModified |-> cached.lastModified])
  ELSE IF cached # NoEntry /\ t - cached.timestamp < CACHE_TTL
  THEN Ending("fallback", cached.data, NoEntry,
              [data |-> cached.data, etag |-> cached.etag, lastModified |-> cached.lastModified])
  ELSE Ending("thrown", NoEntry, error, NoEntry)

\* OnError that falls back on the cached data however old the entry is
OnErrorFallsBackAlways(k, cached, error, t) ==
  IF error.status = 304 /\ cached # NoEntry
  THEN Ending("notModified", cached.data, NoEntry,
              [data |-> cached.data, etag |-> cached.etag, lastModified |-> cached.lastModified])
  ELSE IF cached # NoEntry
  THEN Ending("fallback", cached.data, NoEntry, NoEntry)
  ELSE Ending("thrown", NoEntry, error, NoEntry)

\* OnError that throws an error of the cache's own in place of the caught one
OnErrorWraps(k, cached, error, t) ==
  IF error.status = 304 /\ cached # NoEntry
  THEN Ending("notModified", cached.data, NoEntry,
              [data |-> cached.data, etag |-> cached.etag, lastModified |-> cached.lastModified])
  ELSE IF cached # NoEntry /\ t - cached.timestamp < CACHE_TTL
  THEN Ending("fallback", cached.data, NoEntry, NoEntry)
  ELSE Ending("thrown", NoEntry, [kind |-> "CacheError", status |-> error.status], NoEntry)

\* OnError whose 304 branch returns the cached data without setCache
OnErrorNoRefresh(k, cached, error, t) ==
  IF error.status = 304 /\ cached # NoEntry
  THEN Ending("notModified", cached.data, NoEntry, NoEntry)
  ELSE IF cached # NoEntry /\ t - cached.timestamp < CACHE_TTL
  THEN Ending("fallback", cached.data, NoEntry, NoEntry)
  ELSE Ending("thrown", NoEntry, error, NoEntry)

\* OnError with the comparison against CACHE_TTL the wrong way round
OnErrorInverted(k, cached, error, t) ==
  IF error.status = 304 /\ cached # NoEntry
  THEN Ending("notModified", cached.data, NoEntry,
              [data |-> cached.data, etag |-> cached.etag, lastModified |-> cached.lastModified])
  ELSE IF cached # NoEntry /\ t - cached.timestamp > CACHE_TTL
  THEN Ending("fallback", cached.data, NoEntry, NoEntry)
  ELSE Ending("thrown", NoEntry, error, NoEntry)

\* OnError with <= for <: an entry exactly CACHE_TTL old is still served
OnErrorInclusive(k, cached, error, t) ==
  IF error.status = 304 /\ cached # NoEntry
  THEN Ending("notModified", cached.data, NoEntry,
              [data |-> cached.data, etag |-> cached.etag, lastModified |-> cached.lastModified])
  ELSE IF cached # NoEntry /\ t - cached.timestamp <= CACHE_TTL
  THEN Ending("fallback", cached.data, NoEntry, NoEntry)
  ELSE Ending("thrown", NoEntry, error, NoEntry)

\* the catch block: 304 with a snapshot, fallback within CACHE_TTL, or rethrow
OnError(k, cached, error, t) ==
  IF error.status = 304 /\ cached # NoEntry
  THEN Ending("notModified", cached.data, NoEntry,
              [data |-> cached.data, etag |-> cached.etag, lastModified |-> cached.lastModified])
  ELSE IF cached # NoEntry /\ t - cached.timestamp < CACHE_TTL
  THEN Ending("fallback", cached.data, NoEntry, NoEntry)
  ELSE Ending("thrown", NoEntry, error, NoEntry)

\* response.data as received, had no transform been applied to it
Untransformed(k, body) == IF k = "currencies" THEN body.entries ELSE body.list

\* OnResponse that stores and returns response.data without the transform
OnResponseUntransformed(k, cached, r, t) ==
  IF TransformRaises(k, r.body)
  THEN OnError(k, cached, TransformError, t)
  ELSE Ending("fresh", Untransformed(k, r.body), NoEntry,
              [data |-> Untransformed(k, r.body), etag |-> r.etag,
               lastModified |-> r.lastModified])

\* OnResponse that keeps the entry's validator where the response has none
OnResponseKeepsValidators(k, cached, r, t) ==
  IF TransformRaises(k, r.body)
  THEN OnError(k, cached, TransformError, t)
  ELSE Ending("fresh", Transform(k, r.body), NoEntry,
              [data |-> Transform(k, r.body),
               etag |-> IF r.etag = NoValue /\ cached # NoEntry THEN cached.etag ELSE r.etag,
               lastModified |-> IF r.lastModified = NoValue /\ cached # NoEntry
                                THEN cached.lastModified ELSE r.lastModified])

\* OnResponse that trusts an entry younger than CACHE_TTL: it returns the
\* cached data and stores nothing
OnResponseTrustsEntry(k, cached, r, t) ==
  IF cached # NoEntry /\ t - cached.timestamp < CACHE_TTL
  THEN Ending("cached", cached.data, NoEntry, NoEntry)
  ELSE IF TransformRaises(k, r.body)
  THEN OnError(k, cached, TransformError, t)
  ELSE Ending("fresh", Transform(k, r.body), NoEntry,
              [data |-> Transform(k, r.body), etag |-> r.etag, lastModified |-> r.lastModified])

\* OnResponse that calls setCache with response.data before the transform
OnResponseSetsFirst(k, cached, r, t) ==
  IF TransformRaises(k, r.body)
  THEN [OnError(k, cached, TransformError, t) EXCEPT
          !.set = [data |-> <<>>, etag |-> r.etag, lastModified |-> r.lastModified]]
  ELSE Ending("fresh", Transform(k, r.body), NoEntry,
              [data |-> Transform(k, r.body), etag |-> r.etag, lastModified |-> r.lastModified])

\* the try block after a 2xx response: headers, transform, setCache, return
OnResponse(k, cached, r, t) ==
  IF TransformRaises(k, r.body)
  THEN OnError(k, cached, TransformError, t)
  ELSE Ending("fresh", Transform(k, r.body), NoEntry,
              [data |-> Transform(k, r.body), etag |-> r.etag, lastModified |-> r.lastModified])

\* axios rejects every answer that is not 2xx, so a 304 reaches the catch block
fetchWithCacheEnding(k, cached, r, t) ==
  IF r.kind = "ok" THEN OnResponse(k, cached, r, t) ELSE OnError(k, cached, r, t)

\* the response interceptor's error handler: showToast for every rejected request
InterceptorToast(r) == r.kind # "ok"

---------------------------------------------------------------------------
(* The calls.  calls[p] is caller p's current call: where it stands (pc),   *)
(* the locals it holds across the await (cacheKey, cached, headers), and,   *)
(* once it has ended, how it ended.                                         *)

\* the params argument: {} where a method passes none, the default of each
\* wrapper, and a query for one short page
NoParams == [empty |-> TRUE]
DefaultParams(k) == IF k = "accounts" THEN [per_page |-> 100] ELSE [per_page |-> 500]
PageParams == [page |-> 1, per_page |-> 10]
ParamsOf(k) == {DefaultParams(k), PageParams}

\* the body the API answers a query with: what it lists depends on the query
BodyFor(k, params) == IF params = DefaultParams(k) THEN Body1(k) ELSE Body2(k)

Idle ==
  [pc |-> "idle", op |-> "none", cacheKey |-> "none", params |-> NoParams,
   cached |-> NoEntry,
   headers |-> ConditionalHeaders(NoEntry), sent |-> FALSE, requests |-> 0,
   response |-> NoEntry, outcome |-> "none", result |-> NoEntry, error |-> NoEntry,
   toast |-> FALSE]

\* the client while its constructor runs: the forceRefreshCache preference it
\* read, and whether it has called this.cache.clear()
Constructing(flag, cleared) ==
  [pc |-> "constructing", forceRefreshCache |-> flag, cleared |-> cleared]

\* the client once built and exported: `export const toshl = new ToshlClient()`
Ready == [pc |-> "ready"]

\* this.cache.clear()
clear(c) == [k \in DOMAIN c |-> NoEntry]

\* `new ToshlClient()` with its field initialisers done: an empty Map, and
\* the preference as the user set it
\* TransferForm as mounted: useState(false), nothing submitted, no toast
NoValues == [amount |-> "", fromAccount |-> "", toAccount |-> ""]
Mounted == [isLoading |-> FALSE, values |-> NoValues, toast |-> "none"]

Init ==
  /\ form = Mounted
  /\ client \in { [pc |-> "new", forceRefreshCache |-> f] : f \in BOOLEAN }
  /\ cache = [k \in CacheKeys |-> NoEntry]
  /\ calls = [p \in Callers |-> Idle]
  /\ now = 0
  /\ ncalls = 0
  /\ called = {}

\* constructor whose `if (forceRefreshCache)` is missing: it never clears
constructorKeepsCache ==
  /\ client.pc = "new"
  /\ client' = Constructing(client.forceRefreshCache, FALSE)
  /\ UNCHANGED <<form, cache, calls, now, ncalls, called>>

\* the constructor, from getPreferenceValues() to the clearing of the cache
constructor ==
  /\ client.pc = "new"
  /\ cache' = IF client.forceRefreshCache THEN clear(cache) ELSE cache
  /\ client' = Constructing(client.forceRefreshCache, client.forceRefreshCache)
  /\ UNCHANGED <<form, calls, now, ncalls, called>>

\* export of a client that keeps the preference in a field
exportKeepsFlag ==
  /\ client.pc = "constructing"
  /\ client' = [pc |-> "ready", forceRefreshCache |-> client.forceRefreshCache]
  /\ UNCHANGED <<form, cache, calls, now, ncalls, called>>

\* the rest of the constructor (axios.create, the interceptor) and the export
export ==
  /\ client.pc = "constructing"
  /\ client' = Ready
  /\ UNCHANGED <<form, cache, calls, now, ncalls, called>>

\* a caller receives the result of a call that ended before anything else runs
\* (the continuation of an await is a microtask)
NoneEnded == \A q \in Callers : calls[q].pc # "done"

\* a caller starts a call when it has none in flight
CanCall(p) ==
  /\ client = Ready
  /\ NoneEnded
  /\ calls[p].pc = "idle"

\* fetchWithCacheCall that returns an entry younger than CACHE_TTL without a
\* request, as getCached did before conditional requests
fetchWithCacheCallFresh(p, cacheKey, params) ==
  /\ CanCall(p)
  /\ called' = called \cup {cacheKey}
  /\ LET cached == getCacheEntry(cache, cacheKey)
         base == [Idle EXCEPT !.op = "fetchWithCache", !.cacheKey = cacheKey,
                              !.params = params,
                              !.cached = cached, !.headers = ConditionalHeaders(cached)]
     IN calls' = [calls EXCEPT ![p] =
          IF cached # NoEntry /\ now - cached.timestamp < CACHE_TTL
          THEN [base EXCEPT !.pc = "done", !.outcome = "cached", !.result = cached.data]
          ELSE [base EXCEPT !.pc = "await", !.sent = TRUE, !.requests = 1]]
  /\ ncalls' = ncalls + 1
  /\ UNCHANGED <<form, client, cache, now>>

\* fetchWithCacheCall that looks the entry up by key and params: an entry
\* whose data answers another query counts as no entry
fetchWithCacheCallByParams(p, cacheKey, params) ==
  /\ CanCall(p)
  /\ called' = called \cup {cacheKey}
  /\ LET entry == getCacheEntry(cache, cacheKey)
         cached == IF entry # NoEntry /\ entry.data = Transform(cacheKey, BodyFor(cacheKey, params))
                   THEN entry ELSE NoEntry
     IN calls' = [calls EXCEPT ![p] =
          [Idle EXCEPT !.pc = "await", !.op = "fetchWithCache", !.cacheKey = cacheKey,
                       !.params = params,
                       !.cached = cached, !.headers = ConditionalHeaders(cached),
                       !.sent = TRUE, !.requests = 1]]
  /\ ncalls' = ncalls + 1
  /\ UNCHANGED <<form, client, cache, now>>

\* fetchWithCache up to `await this.api.get(endpoint, { params, headers })`
fetchWithCacheCall(p, cacheKey, params) ==
  /\ CanCall(p)
  /\ called' = called \cup {cacheKey}
  /\ LET cached == getCacheEntry(cache, cacheKey)
     IN calls' = [calls EXCEPT ![p] =
          [Idle EXCEPT !.pc = "await", !.op = "fetchWithCache", !.cacheKey = cacheKey,
                       !.params = params,
                       !.cached = cached, !.headers = ConditionalHeaders(cached),
                       !.sent = TRUE, !.requests = 1]]
  /\ ncalls' = ncalls + 1
  /\ UNCHANGED <<form, client, cache, now>>

\* the four wrappers: each passes its key, endpoint and transform, and
\* rethrows whatever fetchWithCache throws
getCategories(p, params) == fetchWithCacheCall(p, "categories", params)
getTags(p, params) == fetchWithCacheCall(p, "tags", params)
getAccounts(p, params) == fetchWithCacheCall(p, "accounts", params)
getCurrencies(p) == fetchWithCacheCall(p, "currencies", NoParams)

\* fetchWithCacheResume that sends the request once more after a first
\* failure which no entry covers, instead of throwing
fetchWithCacheResumeRetries(p, r) ==
  /\ NoneEnded
  /\ calls[p].pc = "await"
  /\ calls[p].op = "fetchWithCache"
  /\ now' = now + RoundTrip
  /\ LET k == calls[p].cacheKey
         e == fetchWithCacheEnding(k, calls[p].cached, r, now')
     IN IF e.outcome = "thrown" /\ calls[p].requests < 2
        THEN /\ cache' = cache
             /\ calls' = [calls EXCEPT ![p] = [@ EXCEPT !.requests = @ + 1]]
        ELSE /\ cache' = IF e.set = NoEntry THEN cache
                         ELSE setCache(cache, k, e.set.data, e.set.etag, e.set.lastModified, now')
             /\ calls' = [calls EXCEPT ![p] =
                  [@ EXCEPT !.pc = "done", !.response = r, !.outcome = e.outcome,
                            !.result = e.result, !.error = e.error,
                            !.toast = InterceptorToast(r)]]
  /\ UNCHANGED <<form, client, ncalls, called>>

\* fetchWithCacheResume that deletes the key's entry when it throws
fetchWithCacheResumeEvicts(p, r) ==
  /\ NoneEnded
  /\ calls[p].pc = "await"
  /\ calls[p].op = "fetchWithCache"
  /\ now' = now + RoundTrip
  /\ LET k == calls[p].cacheKey
         e == fetchWithCacheEnding(k, calls[p].cached, r, now')
     IN /\ cache' = IF e.outcome = "thrown" THEN [cache EXCEPT ![k] = NoEntry]
                    ELSE IF e.set = NoEntry THEN cache
                    ELSE setCache(cache, k, e.set.data, e.set.etag, e.set.lastModified, now')
        /\ calls' = [calls EXCEPT ![p] =
             [@ EXCEPT !.pc = "done", !.response = r, !.outcome = e.outcome,
                       !.result = e.result, !.error = e.error,
                       !.toast = InterceptorToast(r)]]
  /\ UNCHANGED <<form, client, ncalls, called>>

\* fetchWithCache from the transport's answer r to its return or throw
fetchWithCacheResume(p, r) ==
  /\ NoneEnded
  /\ calls[p].pc = "await"
  /\ calls[p].op = "fetchWithCache"
  /\ now' = now + RoundTrip
  /\ LET k == calls[p].cacheKey
         e == fetchWithCacheEnding(k, calls[p].cached, r, now')
     IN /\ cache' = IF e.set = NoEntry THEN cache
                    ELSE setCache(cache, k, e.set.data, e.set.etag, e.set.lastModified, now')
        /\ calls' = [calls EXCEPT ![p] =
             [@ EXCEPT !.pc = "done", !.response = r, !.outcome = e.outcome,
                       !.result = e.result, !.error = e.error,
                       !.toast = InterceptorToast(r)]]
  /\ UNCHANGED <<form, client, ncalls, called>>

\* me?.currency?.main || "USD"
MainCurrency(body) ==
  IF body = NullBody \/ body.me.currency = NoEntry THEN "USD" ELSE body.me.currency.main

\* getDefaultCurrency up to its return of the cached value or `await this.getMe()`
getDefaultCurrencyCall(p) ==
  /\ CanCall(p)
  /\ called' = called \cup {DefaultCurrencyKey}
  /\ LET cached == getCacheEntry(cache, DefaultCurrencyKey)
         base == [Idle EXCEPT !.op = "getDefaultCurrency", !.cacheKey = DefaultCurrencyKey,
                              !.cached = cached]
     IN calls' = [calls EXCEPT ![p] =
          IF cached # NoEntry
          THEN [base EXCEPT !.pc = "done", !.outcome = "cached", !.result = cached.data]
          ELSE [base EXCEPT !.pc = "await", !.sent = TRUE, !.requests = 1]]
  /\ ncalls' = ncalls + 1
  /\ UNCHANGED <<form, client, cache, now>>

\* getDefaultCurrencyResume whose catch block stores the "USD" it returns
getDefaultCurrencyResumeStoresFallback(p, r) ==
  /\ NoneEnded
  /\ calls[p].pc = "await"
  /\ calls[p].op = "getDefaultCurrency"
  /\ now' = now + RoundTrip
  /\ cache' = IF r.kind = "ok"
              THEN setCache(cache, DefaultCurrencyKey, MainCurrency(r.body), NoValue, NoValue, now')
              ELSE setCache(cache, DefaultCurrencyKey, "USD", NoValue, NoValue, now')
  /\ calls' = [calls EXCEPT ![p] =
       [@ EXCEPT !.pc = "done", !.response = r,
                 !.outcome = IF r.kind = "ok" THEN "fresh" ELSE "default",
                 !.result = IF r.kind = "ok" THEN MainCurrency(r.body) ELSE "USD",
                 !.toast = InterceptorToast(r)]]
  /\ UNCHANGED <<form, client, ncalls, called>>

\* getDefaultCurrency from getMe's answer r to its return
getDefaultCurrencyResume(p, r) ==
  /\ NoneEnded
  /\ calls[p].pc = "await"
  /\ calls[p].op = "getDefaultCurrency"
  /\ now' = now + RoundTrip
  /\ cache' = IF r.kind = "ok"
              THEN setCache(cache, DefaultCurrencyKey, MainCurrency(r.body), NoValue, NoValue, now')
              ELSE cache
  /\ calls' = [calls EXCEPT ![p] =
       [@ EXCEPT !.pc = "done", !.response = r,
                 !.outcome = IF r.kind = "ok" THEN "fresh" ELSE "default",
                 !.result = IF r.kind = "ok" THEN MainCurrency(r.body) ELSE "USD",
                 !.toast = InterceptorToast(r)]]
  /\ UNCHANGED <<form, client, ncalls, called>>

---------------------------------------------------------------------------
(* The write path: each method awaits one request and returns response.data *)
(* or rethrows what it caught.                                              *)

WriteOps == {"addTransaction", "addTransfer", "updateTransaction", "deleteTransaction"}

\* the Transaction the API answers a post or put with
Saved == [entry |-> "e1"]

\* answers to a write: 2xx with the saved entry, a 5xx, or a network error
WriteResponses ==
  {OkResponse(Saved, <<NoValue, NoValue>>)} \cup {f \in Failures : f.status # 304}

\* a write method up to its `await this.api.post/put/delete(...)`
writeCall(p, op) ==
  /\ CanCall(p)
  /\ calls' = [calls EXCEPT ![p] =
       [Idle EXCEPT !.pc = "await", !.op = op, !.sent = TRUE, !.requests = 1]]
  /\ ncalls' = ncalls + 1
  /\ UNCHANGED <<form, client, cache, now, called>>

addTransaction(p) == writeCall(p, "addTransaction")
addTransfer(p) == writeCall(p, "addTransfer")
updateTransaction(p) == writeCall(p, "updateTransaction")
deleteTransaction(p) == writeCall(p, "deleteTransaction")

\* writeResume that empties the cache once the write has succeeded
writeResumeInvalidates(p, r) ==
  /\ NoneEnded
  /\ calls[p].pc = "await"
  /\ calls[p].op \in WriteOps
  /\ now' = now + RoundTrip
  /\ cache' = IF r.kind = "ok" THEN clear(cache) ELSE cache
  /\ calls' = [calls EXCEPT ![p] =
       [@ EXCEPT !.pc = "done", !.response = r,
                 !.outcome = IF r.kind = "ok" THEN "returned" ELSE "thrown",
                 !.result = IF r.kind = "ok" /\ calls[p].op # "deleteTransaction"
                            THEN r.body ELSE NoEntry,
                 !.error = IF r.kind = "ok" THEN NoEntry ELSE r,
                 !.toast = InterceptorToast(r)]]
  /\ UNCHANGED <<form, client, ncalls, called>>

\* a write method from the transport's answer r to its return or throw:
\* response.data (nothing for deleteTransaction), or the caught error
writeResume(p, r) ==
  /\ NoneEnded
  /\ calls[p].pc = "await"
  /\ calls[p].op \in WriteOps
  /\ now' = now + RoundTrip
  /\ calls' = [calls EXCEPT ![p] =
       [@ EXCEPT !.pc = "done", !.response = r,
                 !.outcome = IF r.kind = "ok" THEN "returned" ELSE "thrown",
                 !.result = IF r.kind = "ok" /\ calls[p].op # "deleteTransaction"
                            THEN r.body ELSE NoEntry,
                 !.error = IF r.kind = "ok" THEN NoEntry ELSE r,
                 !.toast = InterceptorToast(r)]]
  /\ UNCHANGED <<form, client, cache, ncalls, called>>

---------------------------------------------------------------------------
(* TransferForm.  handleSubmit validates the values, and with valid ones    *)
(* sets the loading flag, awaits toshl.addTransfer(payload) and clears the  *)
(* flag in its finally block.                                               *)

\* what the user may have typed as amount and chosen as accounts
Amounts == {"", " ", "abc", "50", "-50"}
Accounts == {"", "a1", "a2"}
FormValues ==
  { [amount |-> a, fromAccount |-> f, toAccount |-> t] :
      a \in Amounts, f \in Accounts, t \in Accounts }

\* a JavaScript number: NaN, or a value
NaN == [isNaN |-> TRUE, value |-> 0]
Num(n) == [isNaN |-> FALSE, value |-> n]

\* Number(s): the empty string and white space convert to 0
Number(s) ==
  CASE s \in {"", " "} -> Num(0)
    [] s = "50" -> Num(50)
    [] s = "-50" -> Num(-50)
    [] OTHER -> NaN

\* parseFloat(s): NaN unless s begins with a number
parseFloat(s) ==
  CASE s = "50" -> Num(50)
    [] s = "-50" -> Num(-50)
    [] OTHER -> NaN

\* -Math.abs(x)
NegAbs(x) == IF x.isNaN THEN NaN ELSE Num(IF x.value < 0 THEN x.value ELSE -x.value)

\* the message of the validation toast, "none" when the values pass
ValidationError(v) ==
  IF v.amount = "" THEN "Amount is required"
  ELSE IF Number(v.amount).isNaN THEN "Amount must be a number"
  ELSE IF v.fromAccount = "" \/ v.toAccount = "" THEN "Both accounts are required"
  ELSE IF v.fromAccount = v.toAccount THEN "From and To accounts must be different"
  ELSE "none"

\* the TransferInput built from the values
Payload(v) ==
  [amount |-> NegAbs(parseFloat(v.amount)), account |-> v.fromAccount,
   toAccount |-> v.toAccount]

\* handleSubmit from its call to its early return or to
\* `await toshl.addTransfer(payload)`
handleSubmit(p, v) ==
  /\ CanCall(p)
  /\ IF ValidationError(v) # "none"
     THEN /\ form' = [form EXCEPT !.values = v, !.toast = ValidationError(v)]
          /\ UNCHANGED <<calls, ncalls>>
     ELSE /\ form' = [form EXCEPT !.values = v, !.isLoading = TRUE]
          /\ calls' = [calls EXCEPT ![p] =
               [Idle EXCEPT !.pc = "await", !.op = "addTransfer", !.params = Payload(v),
                            !.sent = TRUE, !.requests = 1]]
          /\ ncalls' = ncalls + 1
  /\ UNCHANGED <<client, cache, now, called>>

\* handleSubmit after the await: the success toast and pop(), or the empty
\* catch block, and then the finally block
handleSubmitResume(p) ==
  /\ calls[p].pc = "done"
  /\ calls[p].op = "addTransfer"
  /\ form' = [form EXCEPT !.isLoading = FALSE,
                          !.toast = IF calls[p].outcome = "returned"
                                    THEN "Transfer Added" ELSE @]
  /\ calls' = [calls EXCEPT ![p] = Idle]
  /\ UNCHANGED <<client, cache, now, ncalls, called>>

\* the caller has taken the value returned or the error thrown
Return(p) ==
  /\ calls[p].pc = "done"
  /\ calls' = [calls EXCEPT ![p] = Idle]
  /\ UNCHANGED <<form, client, cache, now, ncalls, called>>

---------------------------------------------------------------------------
(* The clock.  Date.now() is read when a call resumes; it has advanced by   *)
(* the request's round trip, and by whatever time passed with no call made. *)

\* idle time that passes in one step: after it, an entry is one round trip
\* short of CACHE_TTL old when the next request fails, and exactly
\* CACHE_TTL old when the request after that fails
Delays == {CACHE_TTL - 2 * RoundTrip}

\* the clock's range: a run lasts at most three weeks
Horizon == CACHE_TTL + CACHE_TTL \div 2

Tick(d) ==
  /\ client = Ready
  /\ NoneEnded
  /\ now <= Horizon - d
  /\ now' = now + d
  /\ UNCHANGED <<form, client, cache, calls, ncalls, called>>

---------------------------------------------------------------------------

\* what bounds a behaviour: the calls made in all, and the keys they are for
Bounded(k) == ncalls < MaxCalls /\ Cardinality(called \cup {k}) <= MaxKeys

Next ==
  \/ constructor
  \/ export
  \/ \E p \in Callers : Bounded("categories") /\ getCategories(p, DefaultParams("categories"))
  \/ \E p \in Callers : Bounded("tags") /\ getTags(p, DefaultParams("tags"))
  \/ \E p \in Callers : Bounded("accounts") /\ getAccounts(p, DefaultParams("accounts"))
  \/ \E p \in Callers : Bounded("currencies") /\ getCurrencies(p)
  \/ \E p \in Callers : \E k \in FetchKeys : \E r \in Responses(k) :
       calls[p].cacheKey = k /\ fetchWithCacheResume(p, r)
  \/ \E p \in Callers : Bounded(DefaultCurrencyKey) /\ getDefaultCurrencyCall(p)
  \/ \E p \in Callers : \E r \in Responses(DefaultCurrencyKey) : getDefaultCurrencyResume(p, r)
  \/ \E p \in Callers : Return(p)
  \/ \E d \in Delays : Tick(d)

Spec == Init /\ [][Next]_vars

\* the write path beside the read path: any caller writes, while one caller
\* reads, so that writes start and end with the store empty, filled, and
\* with a read of it in flight
Reader == 1

NextWrites ==
  \/ constructor
  \/ export
  \/ Bounded("categories") /\ getCategories(Reader, DefaultParams("categories"))
  \/ Bounded("tags") /\ getTags(Reader, DefaultParams("tags"))
  \/ Bounded("accounts") /\ getAccounts(Reader, DefaultParams("accounts"))
  \/ Bounded("currencies") /\ getCurrencies(Reader)
  \/ \E k \in FetchKeys : \E r \in Responses(k) :
       calls[Reader].cacheKey = k /\ fetchWithCacheResume(Reader, r)
  \/ Bounded(DefaultCurrencyKey) /\ getDefaultCurrencyCall(Reader)
  \/ \E r \in Responses(DefaultCurrencyKey) : getDefaultCurrencyResume(Reader, r)
  \/ \E p \in Callers : ncalls < MaxCalls /\ addTransaction(p)
  \/ \E p \in Callers : ncalls < MaxCalls /\ addTransfer(p)
  \/ \E p \in Callers : ncalls < MaxCalls /\ updateTransaction(p)
  \/ \E p \in Callers : ncalls < MaxCalls /\ deleteTransaction(p)
  \/ \E p \in Callers : \E r \in WriteResponses : writeResume(p, r)
  \/ \E p \in Callers : Return(p)
  \/ \E d \in Delays : Tick(d)

SpecWrites == Init /\ [][NextWrites]_vars

\* the wrappers called with one query and then another: the API answers
\* each query with the body of that query
ListKeys == {"categories", "tags", "accounts"}

NextParams ==
  \/ constructor
  \/ export
  \/ \E params \in ParamsOf("categories") :
       Bounded("categories") /\ getCategories(Reader, params)
  \/ \E params \in ParamsOf("tags") : Bounded("tags") /\ getTags(Reader, params)
  \/ \E params \in ParamsOf("accounts") : Bounded("accounts") /\ getAccounts(Reader, params)
  \/ \E k \in ListKeys : \E r \in Responses(k) :
       /\ calls[Reader].cacheKey = k
       /\ r.kind = "ok" => r.body = BodyFor(k, calls[Reader].params)
       /\ fetchWithCacheResume(Reader, r)
  \/ Return(Reader)
  \/ \E d \in Delays : Tick(d)

SpecParams == Init /\ [][NextParams]_vars

\* calls on several keys at once, as in
\* Promise.all([getCategories(), getTags(), getAccounts()])
NextKeys ==
  \/ constructor
  \/ export
  \/ \E p \in Callers : ncalls < MaxCalls /\ getCategories(p, DefaultParams("categories"))
  \/ \E p \in Callers : ncalls < MaxCalls /\ getTags(p, DefaultParams("tags"))
  \/ \E p \in Callers : ncalls < MaxCalls /\ getAccounts(p, DefaultParams("accounts"))
  \/ \E p \in Callers : \E k \in ListKeys : \E r \in Responses(k) :
       calls[p].cacheKey = k /\ fetchWithCacheResume(p, r)
  \/ \E p \in Callers : Return(p)
  \/ \E d \in Delays : Tick(d)

SpecKeys == Init /\ [][NextKeys]_vars

\* the transfer form, submitted with any values, also while an earlier
\* submit awaits its answer
NextForm ==
  \/ constructor
  \/ export
  \/ \E p \in Callers : \E v \in FormValues : ncalls < MaxCalls /\ handleSubmit(p, v)
  \/ \E p \in Callers : \E r \in WriteResponses : writeResume(p, r)
  \/ \E p \in Callers : handleSubmitResume(p)

SpecForm == Init /\ [][NextForm]_vars

\* one caller on one key, the API answering by the number of the call: the
\* first with content and etag v1, the second with 304, every later one
\* with a failure; time passes after the second call and after the third
ScenarioCalls == 4

Day == 24 * 60 * 60 * 1000

ScenarioResponses(k, n) ==
  CASE n = 1 -> { OkResponse(Body1(k), v) : v \in {<<"v1", "t1">>, <<"v1", NoValue>>} }
    [] n = 2 -> { f \in Failures : f.status = 304 }
    [] OTHER -> { f \in Failures : f.status # 304 }

OneKey(k) == ncalls < ScenarioCalls /\ called \subseteq {k}

\* the time since the one key's entry was stamped
EntryAge == now - getCacheEntry(cache, CHOOSE k \in called : TRUE).timestamp

NextScenario ==
  \/ constructor
  \/ export
  \/ OneKey("categories") /\ getCategories(Reader, DefaultParams("categories"))
  \/ OneKey("tags") /\ getTags(Reader, DefaultParams("tags"))
  \/ OneKey("accounts") /\ getAccounts(Reader, DefaultParams("accounts"))
  \/ OneKey("currencies") /\ getCurrencies(Reader)
  \/ \E k \in FetchKeys : \E r \in ScenarioResponses(k, ncalls) :
       calls[Reader].cacheKey = k /\ fetchWithCacheResume(Reader, r)
  \/ Return(Reader)
  \/ /\ ncalls = 2 /\ calls[Reader].pc = "idle" /\ EntryAge = 0
     /\ Tick(3 * Day - RoundTrip)
  \/ /\ ncalls = 3 /\ calls[Reader].pc = "idle" /\ EntryAge = 3 * Day
     /\ Tick(12 * Day - RoundTrip)

SpecScenario == Init /\ [][NextScenario]_vars

---------------------------------------------------------------------------
(* What the claims speak of.  A call that has ended stands at "done" with   *)
(* its response and ending, and the store is as the call left it, until the *)
(* caller takes the result.                                                 *)

Ended(p) == calls[p].pc = "done"
FetchEnded(p) == Ended(p) /\ calls[p].op = "fetchWithCache"
Resumes(p) == calls[p].pc = "await" /\ calls'[p].pc = "done"

\* the transport answered with fresh content that the transform accepts
FreshContent(p) ==
  /\ calls[p].response.kind = "ok"
  /\ ~TransformRaises(calls[p].cacheKey, calls[p].response.body)

\* the transport answered 2xx with a body on which the transform throws
TransformFailed(p) ==
  /\ calls[p].response.kind = "ok"
  /\ TransformRaises(calls[p].cacheKey, calls[p].response.body)

NotModified(p) == calls[p].response.kind = "error" /\ calls[p].response.status = 304

\* the request failed: a network error or a status other than 2xx and 304
RequestFailed(p) == calls[p].response.kind = "error" /\ calls[p].response.status # 304

HadEntry(p) == calls[p].cached # NoEntry

\* age of the call's entry at the current time
Age(p) == now - calls[p].cached.timestamp

Key(p) == calls[p].cacheKey

---------------------------------------------------------------------------
\* C1: a fetchWithCache call made with no entry for its key and answered
\* with fresh content leaves an entry for the key whose data is
\* transform(response body), and returns that same data.
C1_FirstFetchStoresTransformed ==
  \A p \in Callers :
    (FetchEnded(p) /\ ~HadEntry(p) /\ FreshContent(p)) =>
      /\ calls[p].outcome = "fresh"
      /\ cache[Key(p)] # NoEntry
      /\ cache[Key(p)].data = Transform(Key(p), calls[p].response.body)
      /\ calls[p].result = Transform(Key(p), calls[p].response.body)

C1_Witness ==
  \E p \in Callers :
    /\ FetchEnded(p) /\ ~HadEntry(p) /\ FreshContent(p)
    /\ calls[p].response.body = Body1(Key(p))

\* C2: a call for a key that had an entry, answered 304, leaves the entry's
\* data, etag and lastModified as they were when the call read the entry,
\* stamps a later timestamp, and returns the entry's data.
C2_NotModifiedRefreshesTimestampOnly ==
  \A p \in Callers :
    (FetchEnded(p) /\ HadEntry(p) /\ NotModified(p)) =>
      /\ calls[p].outcome = "notModified"
      /\ cache[Key(p)] # NoEntry
      /\ cache[Key(p)].data = calls[p].cached.data
      /\ cache[Key(p)].etag = calls[p].cached.etag
      /\ cache[Key(p)].lastModified = calls[p].cached.lastModified
      /\ cache[Key(p)].timestamp > calls[p].cached.timestamp
      /\ calls[p].result = calls[p].cached.data

C2_Witness ==
  \E p \in Callers :
    /\ FetchEnded(p) /\ HadEntry(p) /\ NotModified(p)
    /\ calls[p].cached.etag = "v1"

\* C3: a call for a key that had an entry, answered with fresh content,
\* leaves an entry whose data and validators are exactly the response's:
\* a validator the response lacks is absent from the entry.
C3_FreshContentReplacesValidators ==
  \A p \in Callers :
    (FetchEnded(p) /\ HadEntry(p) /\ FreshContent(p)) =>
      /\ cache[Key(p)] # NoEntry
      /\ cache[Key(p)].data = Transform(Key(p), calls[p].response.body)
      /\ cache[Key(p)].etag = calls[p].response.etag
      /\ cache[Key(p)].lastModified = calls[p].response.lastModified

C3_Witness ==
  \E p \in Callers :
    /\ FetchEnded(p) /\ HadEntry(p) /\ FreshContent(p)
    /\ calls[p].cached.etag = "v1" /\ calls[p].cached.lastModified = "t1"
    /\ calls[p].response.etag = NoValue /\ calls[p].response.lastModified = NoValue

\* C4: when the request fails and the key had an entry stamped less than
\* CACHE_TTL before the current time, the call returns the entry's data and
\* throws nothing.
C4_FailureFallsBackWithinTtl ==
  \A p \in Callers :
    (FetchEnded(p) /\ RequestFailed(p) /\ HadEntry(p) /\ Age(p) < CACHE_TTL) =>
      /\ calls[p].outcome = "fallback"
      /\ calls[p].result = calls[p].cached.data
      /\ calls[p].error = NoEntry

C4_Witness ==
  \E p \in Callers :
    /\ FetchEnded(p) /\ RequestFailed(p) /\ HadEntry(p)
    /\ Age(p) = CACHE_TTL - RoundTrip

\* C5: when the request fails and the key had no entry, or an entry stamped
\* CACHE_TTL or more before the current time, the call throws the failure
\* and the whole store is as it was.
C5_FailurePropagatesBeyondTtl ==
  [][ \A p \in Callers :
        ( /\ Resumes(p) /\ calls[p].op = "fetchWithCache"
          /\ calls'[p].response.kind = "error" /\ calls'[p].response.status # 304
          /\ (~HadEntry(p) \/ now' - calls[p].cached.timestamp >= CACHE_TTL) ) =>
          /\ calls'[p].outcome = "thrown"
          /\ calls'[p].error = calls'[p].response
          /\ cache' = cache ]_vars

C5_Witness ==
  \E p \in Callers :
    /\ FetchEnded(p) /\ RequestFailed(p) /\ HadEntry(p)
    /\ Age(p) = CACHE_TTL
    /\ calls[p].outcome = "thrown"

\* C6: whenever transform throws on a received body, the call throws,
\* whether or not the key had an entry.
C6_TransformFailurePropagates ==
  \A p \in Callers :
    (FetchEnded(p) /\ TransformFailed(p)) => calls[p].outcome = "thrown"

\* C7: when transform throws on a received body, the call leaves the key's
\* entry (data, validators and timestamp) as it was.
C7_TransformFailureLeavesEntry ==
  [][ \A p \in Callers :
        ( /\ Resumes(p) /\ calls[p].op = "fetchWithCache"
          /\ calls'[p].response.kind = "ok"
          /\ TransformRaises(Key(p), calls'[p].response.body) ) =>
          cache'[Key(p)] = cache[Key(p)] ]_vars

C7_Witness ==
  \E p \in Callers : FetchEnded(p) /\ TransformFailed(p) /\ HadEntry(p)

\* C8 as claimed: every call that reads a cached key, getDefaultCurrency
\* included, sends a request.
C8_EveryCallRequests ==
  \A p \in Callers : calls[p].pc # "idle" => calls[p].sent

\* C8 (amended): every fetchWithCache call sends a request, whether or not
\* its key has an entry and however old it is; getDefaultCurrency sends one
\* exactly when its key has no entry.
C8_FetchAlwaysRequests ==
  \A p \in Callers :
    /\ (calls[p].pc # "idle" /\ calls[p].op = "fetchWithCache") => calls[p].sent
    /\ (calls[p].pc # "idle" /\ calls[p].op = "getDefaultCurrency") =>
         (calls[p].sent <=> ~HadEntry(p))

C8_Witness ==
  \E p \in Callers :
    /\ calls[p].pc = "await" /\ calls[p].op = "fetchWithCache"
    /\ HadEntry(p) /\ Age(p) < CACHE_TTL
    /\ calls[p].sent

\* C9: no call writes the store from an entry it read before another
\* call's write to the same key: the entry a 304 refreshes is the entry
\* the store holds.
C9_NoWriteFromStaleSnapshot ==
  [][ \A p \in Callers :
        ( /\ Resumes(p) /\ calls[p].op = "fetchWithCache"
          /\ calls'[p].outcome = "notModified" ) =>
          calls[p].cached = cache[Key(p)] ]_vars

\* C10: the request carries If-None-Match exactly when the key's entry has
\* an etag, with that etag, and If-Modified-Since exactly when it has a
\* lastModified, with that value; with no entry it carries neither.
C10_ConditionalHeadersFromEntry ==
  \A p \in Callers :
    (calls[p].pc # "idle" /\ calls[p].op = "fetchWithCache") =>
      /\ (calls[p].headers.ifNoneMatch # NoValue) <=>
           (HadEntry(p) /\ calls[p].cached.etag # NoValue)
      /\ (calls[p].headers.ifNoneMatch # NoValue) =>
           calls[p].headers.ifNoneMatch = calls[p].cached.etag
      /\ (calls[p].headers.ifModifiedSince # NoValue) <=>
           (HadEntry(p) /\ calls[p].cached.lastModified # NoValue)
      /\ (calls[p].headers.ifModifiedSince # NoValue) =>
           calls[p].headers.ifModifiedSince = calls[p].cached.lastModified

C10_Witness ==
  \E p \in Callers :
    /\ calls[p].pc = "await" /\ calls[p].op = "fetchWithCache"
    /\ HadEntry(p)
    /\ calls[p].cached.etag = NoValue /\ calls[p].cached.lastModified = "t1"
    /\ calls[p].headers.ifModifiedSince = "t1"

\* C11: a fetchWithCache call sends exactly one request: when it fails the
\* call ends at once, with the cached data or with the failure thrown.
C11_OneRequestPerCall ==
  \A p \in Callers :
    /\ (calls[p].pc # "idle" /\ calls[p].op = "fetchWithCache") => calls[p].requests = 1
    /\ (FetchEnded(p) /\ RequestFailed(p)) => calls[p].outcome \in {"fallback", "thrown"}

C11_Witness ==
  \E p \in Callers :
    /\ FetchEnded(p) /\ RequestFailed(p) /\ ~HadEntry(p)
    /\ calls[p].requests = 1 /\ calls[p].outcome = "thrown"

\* C12: when the force-refresh preference is set, the constructor has
\* called clear() before the client is exported, no call has used the
\* cache by then, and every key's lookup returns undefined; no call is made
\* on a client still under construction.
C12_ForceRefreshClearsBeforeUse ==
  /\ (client.pc = "constructing" /\ client.forceRefreshCache) =>
       /\ client.cleared
       /\ ncalls = 0
       /\ \A k \in CacheKeys : getCacheEntry(cache, k) = NoEntry
  /\ ncalls > 0 => client = Ready

C12_Witness ==
  /\ client.pc = "constructing" /\ client.forceRefreshCache /\ client.cleared
  /\ \A k \in CacheKeys : getCacheEntry(cache, k) = NoEntry

\* C13: a key that has an entry keeps having one in every later state: no
\* step removes or expires an entry, a step only overwrites it.
C13_EntriesPersist ==
  [][ \A k \in CacheKeys :
        getCacheEntry(cache, k) # NoEntry => getCacheEntry(cache', k) # NoEntry ]_vars

C13_Witness ==
  \E p \in Callers :
    /\ FetchEnded(p) /\ HadEntry(p) /\ calls[p].outcome = "thrown"
    /\ Age(p) >= CACHE_TTL
    /\ getCacheEntry(cache, Key(p)) # NoEntry

\* C14: when the transport fails and the key had no entry, the call throws
\* the transport's failure itself, with the kind and status it came with.
C14_MissThrowsTransportFailure ==
  \A p \in Callers :
    (FetchEnded(p) /\ ~HadEntry(p) /\ calls[p].response.kind = "error") =>
      /\ calls[p].outcome = "thrown"
      /\ calls[p].error = calls[p].response
      /\ calls[p].error \in Failures

C14_Witness ==
  \E p \in Callers :
    /\ FetchEnded(p) /\ ~HadEntry(p)
    /\ calls[p].response.kind = "error"
    /\ calls[p].error = calls[p].response

\* C15: addTransaction, addTransfer, updateTransaction and deleteTransaction
\* take no snapshot of the store and send no validator, and the step that
\* starts one and the step that ends one, in success or in failure, leave
\* every entry of the store as it was.
C15_WritesPassThrough ==
  [][ \A p \in Callers :
        /\ calls'[p].op \in WriteOps =>
             /\ calls'[p].cached = NoEntry
             /\ calls'[p].headers = ConditionalHeaders(NoEntry)
        /\ (calls'[p].op \in WriteOps /\ calls'[p] # calls[p]) => cache' = cache
        /\ (calls'[p].op \in WriteOps /\ calls'[p].pc = "done") =>
             IF calls'[p].response.kind = "ok"
             THEN calls'[p].outcome = "returned" /\ calls'[p].error = NoEntry
             ELSE calls'[p].outcome = "thrown" /\ calls'[p].error = calls'[p].response
    ]_vars

C15_Witness ==
  \E p \in Callers :
    /\ Ended(p) /\ calls[p].op \in WriteOps
    /\ calls[p].outcome = "returned"
    /\ \E k \in CacheKeys : getCacheEntry(cache, k) # NoEntry
    /\ \E q \in Callers : calls[q].pc = "await" /\ calls[q].op = "fetchWithCache"

\* the keys of the description's caching flow
FlowKeys == {"categories", "tags", "accounts"}

C17_ParamsNotInKey ==
  [][ /\ DOMAIN cache' = CacheKeys
      /\ \A p \in Callers : \A k \in ListKeys :
           /\ ( /\ calls[p].pc = "idle" /\ calls'[p].pc = "await"
                /\ calls'[p].cacheKey = k ) =>
                /\ calls'[p].cached = getCacheEntry(cache, k)
                /\ calls'[p].headers = ConditionalHeaders(getCacheEntry(cache, k))
           /\ ( /\ Resumes(p) /\ calls[p].cacheKey = k /\ HadEntry(p)
                /\ calls'[p].response.kind = "error"
                /\ ( calls'[p].response.status = 304
                     \/ now' - calls[p].cached.timestamp < CACHE_TTL ) ) =>
                calls'[p].result = calls[p].cached.data
    ]_vars

\* a call with the page query is answered 304 and returns the data that
\* answered the default query
C17_Witness ==
  \E p \in Callers :
    /\ FetchEnded(p) /\ Key(p) \in ListKeys
    /\ calls[p].params = PageParams
    /\ HadEntry(p) /\ NotModified(p)
    /\ calls[p].headers.ifNoneMatch = "v1"
    /\ calls[p].result = Transform(Key(p), BodyFor(Key(p), DefaultParams(Key(p))))
    /\ calls[p].result # Transform(Key(p), BodyFor(Key(p), PageParams))

\* the data D of the scenario: the transform of the first answer's body
ScenarioData(k) == Transform(k, Body1(k))

\* C18: on one key, the first fetch, answered with content and etag v1,
\* stores and returns D; the second sends If-None-Match v1, is answered
\* 304, returns D and stamps the entry with the current time; the third
\* fails with the entry 3 days old and returns D; the fourth fails with the
\* entry 15 days old and throws the failure.
C18_Scenario ==
  \A p \in Callers :
    FetchEnded(p) =>
      /\ ncalls = 1 =>
           /\ calls[p].outcome = "fresh"
           /\ calls[p].result = ScenarioData(Key(p))
           /\ getCacheEntry(cache, Key(p)).data = ScenarioData(Key(p))
           /\ getCacheEntry(cache, Key(p)).etag = "v1"
      /\ ncalls = 2 =>
           /\ calls[p].headers.ifNoneMatch = "v1"
           /\ calls[p].outcome = "notModified"
           /\ calls[p].result = ScenarioData(Key(p))
           /\ getCacheEntry(cache, Key(p)).data = ScenarioData(Key(p))
           /\ getCacheEntry(cache, Key(p)).etag = "v1"
           /\ getCacheEntry(cache, Key(p)).timestamp = now
           /\ calls[p].cached.timestamp < now
      /\ (ncalls = 3 /\ Age(p) = 3 * Day) =>
           /\ calls[p].outcome = "fallback"
           /\ calls[p].result = ScenarioData(Key(p))
           /\ getCacheEntry(cache, Key(p)) = calls[p].cached
      /\ (ncalls = 4 /\ Age(p) = 15 * Day) =>
           /\ calls[p].outcome = "thrown"
           /\ calls[p].error = calls[p].response
           /\ getCacheEntry(cache, Key(p)) = calls[p].cached

\* the end of the scenario: the fourth call has thrown, after the ticks
\* that follow the 304 of the second call and the fallback of the third
C18_Witness ==
  \E p \in Callers :
    /\ FetchEnded(p) /\ ncalls = 4 /\ Age(p) = 15 * Day
    /\ RequestFailed(p)
    /\ calls[p].outcome = "thrown"
    /\ calls[p].cached.data = ScenarioData(Key(p))
    /\ calls[p].cached.etag = "v1"

\* C19: a call that returns through the failure fallback leaves the store
\* as it was, stamp included, and returns less than CACHE_TTL after the
\* key's entry was last stamped by a fresh or a 304 answer.
C19_FallbackWithinTtlOfLastStore ==
  [][ \A p \in Callers :
        ( /\ Resumes(p) /\ calls[p].op = "fetchWithCache"
          /\ calls'[p].outcome = "fallback" ) =>
          /\ cache' = cache
          /\ getCacheEntry(cache, Key(p)) # NoEntry
          /\ now' - getCacheEntry(cache', Key(p)).timestamp < CACHE_TTL ]_vars

C19_Witness ==
  \E p \in Callers :
    /\ FetchEnded(p) /\ calls[p].outcome = "fallback"
    /\ getCacheEntry(cache, Key(p)).timestamp = calls[p].cached.timestamp
    /\ now - getCacheEntry(cache, Key(p)).timestamp = CACHE_TTL - RoundTrip

\* C20: a call answered 304 with an entry for its key ends with no failure
\* toast shown, and a failure toast is shown only for a call that throws.
C20_NotModifiedShowsNoToast ==
  \A p \in Callers :
    /\ (FetchEnded(p) /\ HadEntry(p) /\ NotModified(p)) => ~calls[p].toast
    /\ (FetchEnded(p) /\ calls[p].toast) => calls[p].outcome = "thrown"

\* C21: a call whose key had no entry and whose request is answered 304
\* returns no data: it throws the 304 failure, and the step leaves the
\* store as it was, so it writes no entry for the key.
C21_NotModifiedWithoutEntryThrows ==
  [][ \A p \in Callers :
        ( /\ Resumes(p) /\ calls[p].op = "fetchWithCache"
          /\ ~HadEntry(p)
          /\ calls'[p].response.kind = "error" /\ calls'[p].response.status = 304 ) =>
          /\ calls'[p].outcome = "thrown"
          /\ calls'[p].result = NoEntry
          /\ calls'[p].error = calls'[p].response
          /\ cache' = cache ]_vars

C21_Witness ==
  \E p \in Callers :
    /\ FetchEnded(p) /\ NotModified(p) /\ ~HadEntry(p)
    /\ calls[p].outcome = "thrown"
    /\ getCacheEntry(cache, Key(p)) = NoEntry

\* a getDefaultCurrency call, and the steps that start one and end one
IsDefaultCurrency(p) == calls[p].op = "getDefaultCurrency"
StartsDefaultCurrency(p) ==
  calls[p].pc = "idle" /\ calls'[p].pc # "idle" /\ calls'[p].op = "getDefaultCurrency"

C23_OtherKeysUntouched ==
  [][ \A p \in Callers :
        /\ (calls[p].pc = "idle" /\ calls'[p].op = "fetchWithCache") => cache' = cache
        /\ (Resumes(p) /\ calls[p].op = "fetchWithCache") =>
             /\ calls'[p].outcome \in {"fresh", "notModified", "fallback", "thrown"}
             /\ \A k \in CacheKeys \ {Key(p)} :
                  getCacheEntry(cache', k) = getCacheEntry(cache, k) ]_vars

\* a call has stored its key's entry while a call on another key, which
\* has an entry, is in flight
C23_Witness ==
  \E p \in Callers : \E q \in Callers :
    /\ FetchEnded(p) /\ calls[p].outcome = "fresh"
    /\ calls[q].pc = "await" /\ Key(q) # Key(p)
    /\ getCacheEntry(cache, Key(q)) # NoEntry
    /\ getCacheEntry(cache, Key(p)).timestamp = now

\* an amount that is numeric: it reads as a number
Numeric(amount) == ~parseFloat(amount).isNaN

\* the step that starts p's addTransfer call
StartsTransfer(p) ==
  calls[p].pc = "idle" /\ calls'[p].pc = "await" /\ calls'[p].op = "addTransfer"

\* C24: TransferForm calls addTransfer only with an amount that is not empty
\* and is numeric, with both accounts chosen and different; a submit that
\* fails validation sends no request; and when a submit has ended, in
\* success or in failure, the loading flag is false.
C24_SubmitsOnlyValidated ==
  [][ /\ \A p \in Callers :
           /\ StartsTransfer(p) =>
                /\ form'.values.amount # "" /\ Numeric(form'.values.amount)
                /\ ~calls'[p].params.amount.isNaN
                /\ form'.values.fromAccount # "" /\ form'.values.toAccount # ""
                /\ form'.values.fromAccount # form'.values.toAccount
           /\ (calls[p].pc = "done" /\ calls'[p].pc = "idle") => ~form'.isLoading
      /\ (form'.values # form.values /\ ValidationError(form'.values) # "none") =>
           calls' = calls /\ ncalls' = ncalls ]_vars

====
